---- MODULE Spec2Model ----
(***************************************************************************)
(* Model of server/index.js (Resume_Analyzer): the POST /api/skills-check  *)
(* handler, extractTextWithLineNumbers, findSkillOccurrences,              *)
(* analyzeSkills and analyzeSkillsWithAI.                                  *)
(*                                                                         *)
(* A JavaScript string is a sequence of one-character strings, indexed     *)
(* from 0 as in the source (charAt(s, p) is s[p + 1]).  A JavaScript value *)
(* whose type the code does not fix (a field of the judge's reply) is a    *)
(* tagged record [t, v].                                                   *)
(***************************************************************************)
EXTENDS Integers, Sequences, FiniteSets, TLC

VARIABLES
    pc,           \* where the request is: see the actions
    genAI,        \* line 21: TRUE iff GOOGLE_API_KEY was set at startup
    files,        \* req.files: sequence of [originalname, buffer]
    skills,       \* req.body.skills: [present, value]
    filePos,      \* position of the for-of loop of line 189 (0-based)
    resumeTexts,  \* line 186
    fileNames,    \* line 187
    i,            \* loop variable of line 125
    basicResult,  \* line 127
    results,      \* line 123 (judge path) / line 195 (handler)
    response,     \* what res.status(..).json(..) sent
    ret,          \* who called analyzeSkills: "basic" | "ai" | "direct"
    callTexts,    \* analyzeSkills parameter resumeTexts
    callNames,    \* analyzeSkills parameter fileNames
    skillsArray,  \* line 77
    index,        \* map index of line 79
    scored,       \* the array the map of line 79 is building
    matched,      \* line 80
    missing,      \* line 81
    skillPos,     \* position of the forEach of line 83 (0-based)
    linePos,      \* position of the forEach of line 53 (0-based)
    startIndex,   \* line 55
    occurrences,  \* line 51
    hits,         \* history: <<lineNumber, startIndex>> of each push of line 62
    judgeLog,     \* history: "call" | "ok" | "fail" | "delay" events of the judge loop
    judged        \* history: the judge's outcome for each resume pushed on the judge path

vars == <<pc, genAI, files, skills, filePos, resumeTexts, fileNames, i, basicResult,
          results, response, ret, callTexts, callNames, skillsArray, index, scored,
          matched, missing, skillPos, linePos, startIndex, occurrences, hits,
          judgeLog, judged>>

handlerVars == <<genAI, files, skills, filePos, resumeTexts, fileNames, i, basicResult,
                 results, response, judgeLog, judged>>

-----------------------------------------------------------------------------
(* Bounds of the model *)

MaxTextLen == 4      \* longest document text of ScanSpec
MaxSkillsLen == 3    \* longest requiredSkills string of ScanSpec
MaxFiles == 2        \* most files of one request
MaxSkills == 40      \* longest skill list of RoundSpec

\* occurrences one scan may hold before the heap is exhausted: above what any
\* text of the model can yield for a non-empty skill
HeapLimit == MaxTextLen + 2

(* Program constants *)

linesPerPage == 50
ContextRadius == 30
EligibleThreshold == 60

-----------------------------------------------------------------------------
(* JavaScript values *)

Num(n) == [t |-> "num", v |-> n]
Bool(b) == [t |-> "bool", v |-> b]
Str(s) == [t |-> "str", v |-> s]
Undefined == [t |-> "undef", v |-> 0]
Null == [t |-> "null", v |-> 0]

\* ToBoolean, as the filter of line 200 applies it
Truthy(x) ==
    CASE x.t = "bool" -> x.v
      [] x.t = "num" -> x.v # 0
      [] x.t = "str" -> x.v # <<>>
      [] OTHER -> FALSE

Min(a, b) == IF a < b THEN a ELSE b
Max(a, b) == IF a > b THEN a ELSE b

-----------------------------------------------------------------------------
(* String primitives *)

WhiteSpace == {" ", "\n", "\t"}

Lower(c) ==
    CASE c = "A" -> "a"
      [] c = "B" -> "b"
      [] OTHER -> c

toLowerCase(s) == [p \in 1..Len(s) |-> Lower(s[p])]

\* String.prototype.substring(a, b) for 0 <= a <= b <= length
substring(s, a, b) == SubSeq(s, a + 1, b)

\* String.prototype.trim
trim(s) ==
    LET keep == {p \in 1..Len(s) : s[p] \notin WhiteSpace}
        lo == CHOOSE p \in keep : \A q \in keep : p <= q
        hi == CHOOSE p \in keep : \A q \in keep : p >= q
    IN IF keep = {} THEN <<>> ELSE SubSeq(s, lo, hi)

\* String.prototype.split(sep) for a one-character separator
RECURSIVE split(_, _)
split(s, sep) ==
    LET at == {p \in 1..Len(s) : s[p] = sep}
        first == CHOOSE p \in at : \A q \in at : p <= q
    IN IF at = {} THEN <<s>>
       ELSE <<SubSeq(s, 1, first - 1)>> \o split(SubSeq(s, first + 1, Len(s)), sep)

\* String.prototype.indexOf(t, from): the least position >= from where t occurs,
\* -1 when there is none; the empty string occurs at every position up to length
indexOf(s, t, from) ==
    LET start == Min(Max(from, 0), Len(s))
        at == {p \in start..(Len(s) - Len(t)) : \A q \in 1..Len(t) : s[p + q] = t[q]}
    IN IF at = {} THEN -1 ELSE CHOOSE p \in at : \A q \in at : p <= q

\* Number -> decimal string, as a template literal renders it
RECURSIVE Digits(_)
Digits(n) ==
    LET d == <<"0", "1", "2", "3", "4", "5", "6", "7", "8", "9">>[(n % 10) + 1]
    IN IF n < 10 THEN <<d>> ELSE Digits(n \div 10) \o <<d>>

\* Math.ceil(a / b) for a >= 0, b > 0
CeilDiv(a, b) == (a + b - 1) \div b

-----------------------------------------------------------------------------
(* IEEE 754 binary64 arithmetic of line 97.  A positive Number is            *)
(* [limbs, exp]: limbs is <<top, l1, l2, l3, l4>>, four 13-bit limbs below a *)
(* top one, read as the integer top * 2^52 + l1 * 2^39 + ... + l4; the value *)
(* is that integer times 2^exp, and it has at most 53 significant bits.      *)

LimbBase == 2^13
FractionBits == 4 * 13

\* the next k quotient limbs of rem / n, and the remainder left
RECURSIVE LongDivide(_, _, _)
LongDivide(rem, n, k) ==
    IF k = 0 THEN [limbs |-> <<>>, rem |-> rem]
    ELSE LET r == rem * LimbBase
             rest == LongDivide(r % n, n, k - 1)
         IN [limbs |-> <<r \div n>> \o rest.limbs, rem |-> rest.rem]

\* limbs * c + carry, every limb but the top one brought back below LimbBase
RECURSIVE MultiplyLimbs(_, _, _)
MultiplyLimbs(limbs, c, carry) ==
    LET t == limbs[Len(limbs)] * c + carry
    IN IF Len(limbs) = 1 THEN <<t>>
       ELSE MultiplyLimbs(SubSeq(limbs, 1, Len(limbs) - 1), c, t \div LimbBase)
                \o <<t % LimbBase>>

\* limbs with add added to the lowest one
AddLow(limbs, add) ==
    MultiplyLimbs(limbs, 1, add)

BitLength(n) == CHOOSE b \in 1..31 : 2^(b - 1) <= n /\ n < 2^b

\* the Number m / n for integers 0 < m <= n: the quotient to 53 bits, rounded
\* to nearest, ties to even
Divide(m, n) ==
    LET z == CHOOSE z \in 0..31 : m * 2^z >= n /\ \A y \in 0..(z - 1) : m * 2^y < n
        q == LongDivide(m * 2^z - n, n, 4)
        bump == \/ 2 * q.rem > n
                \/ 2 * q.rem = n /\ q.limbs[4] % 2 = 1
    IN [limbs |-> AddLow(<<1>> \o q.limbs, IF bump THEN 1 ELSE 0),
        exp |-> 0 - z - FractionBits]

\* the Number x * c for a Number x and a small integer c: the product to 53
\* bits, rounded to nearest, ties to even
Multiply(x, c) ==
    LET p == MultiplyLimbs(x.limbs, c, 0)
        drop == BitLength(p[1]) - 1
        unit == 2^drop
        low == p[5] % unit
        bump == \/ 2 * low > unit
                \/ 2 * low = unit /\ (p[5] \div unit) % 2 = 1
    IN [limbs |-> AddLow(p, (IF bump THEN unit ELSE 0) - low), exp |-> x.exp]

\* Math.round of a positive Number of exponent at most -52: floor(x + 1/2)
MathRound(x) ==
    LET z == 0 - x.exp - FractionBits
        top == x.limbs[1]
        half == IF z >= 1 THEN (top \div 2^(z - 1)) % 2
                ELSE x.limbs[2] \div (LimbBase \div 2)
    IN (top \div 2^z) + half

\* line 97: Math.round((matched.length / skillsArray.length) * 100)
matchPercentageOf(m, n) ==
    IF m = 0 THEN 0 ELSE MathRound(Multiply(Divide(m, n), 100))

-----------------------------------------------------------------------------
(* extractTextWithLineNumbers *)

\* lines 26-42, given the text pdf-parse returned
extractTextWithLineNumbers(fullText) ==
    LET lines == split(fullText, "\n")
    IN [fullText |-> fullText,
        lines |-> [n \in 1..Len(lines) |->
                     [lineNumber |-> n,
                      content |-> trim(lines[n]),
                      estimatedPage |-> CeilDiv(n, linesPerPage)]],
        totalLines |-> Len(lines),
        estimatedPages |-> CeilDiv(Len(lines), linesPerPage)]

-----------------------------------------------------------------------------
(* findSkillOccurrences and analyzeSkills as functions of their arguments    *)
(* (defined where the loop of line 57 ends, that is for a non-empty skill)   *)

\* lines 58-66: the occurrence pushed for a match at position at
Occurrence(line, skillLower, at) ==
    LET contextStart == Max(0, at - ContextRadius)
        contextEnd == Min(Len(line.content), at + Len(skillLower) + ContextRadius)
    IN [lineNumber |-> line.lineNumber,
        estimatedPage |-> line.estimatedPage,
        context |-> substring(line.content, contextStart, contextEnd)]

\* lines 54-69: the occurrences of one line, scanning on from position from
RECURSIVE scanLine(_, _, _)
scanLine(line, skillLower, from) ==
    LET at == indexOf(toLowerCase(line.content), skillLower, from)
    IN IF at = -1 THEN <<>>
       ELSE <<Occurrence(line, skillLower, at)>>
                \o scanLine(line, skillLower, at + Len(skillLower))

RECURSIVE scanLines(_, _, _)
scanLines(lines, skillLower, n) ==
    IF n > Len(lines) THEN <<>>
    ELSE scanLine(lines[n], skillLower, 0) \o scanLines(lines, skillLower, n + 1)

\* lines 49-73
findSkillOccurrences(textData, skill) ==
    scanLines(textData.lines, toLowerCase(skill), 1)

\* line 77
skillsOf(requiredSkills) ==
    LET parts == split(requiredSkills, ",")
    IN [k \in 1..Len(parts) |-> trim(parts[k])]

\* lines 86-91
SkillMatch(skill, occ) ==
    [skill |-> skill, occurrences |-> occ, totalOccurrences |-> Len(occ)]

\* lines 97-109: the result of one resume; idx is the 0-based map index
ResumeResult(textData, skillList, names, idx, matchedList, missingList) ==
    LET matchPercentage == matchPercentageOf(Len(matchedList), Len(skillList))
        isEligible == matchPercentage >= EligibleThreshold
        named == idx < Len(names) /\ names[idx + 1] # <<>>
    IN [fileName |-> IF named THEN names[idx + 1] ELSE <<"Resume ">> \o Digits(idx + 1),
        eligible |-> Bool(isEligible),
        matchPercentage |-> Num(matchPercentage),
        matched |-> matchedList,
        missing |-> missingList,
        summary |-> Str(<<"Found ">> \o Digits(Len(matchedList)) \o <<"/">>
                          \o Digits(Len(skillList)) \o <<" required skills">>),
        totalLines |-> textData.totalLines,
        estimatedPages |-> textData.estimatedPages]

\* lines 80-95: matched and missing after the first k skills
RECURSIVE sortSkills(_, _, _)
sortSkills(textData, skillList, k) ==
    IF k = 0 THEN [matched |-> <<>>, missing |-> <<>>]
    ELSE LET before == sortSkills(textData, skillList, k - 1)
             occ == findSkillOccurrences(textData, skillList[k])
         IN IF Len(occ) > 0
            THEN [matched |-> Append(before.matched, SkillMatch(skillList[k], occ)),
                  missing |-> before.missing]
            ELSE [matched |-> before.matched,
                  missing |-> Append(before.missing, skillList[k])]

\* lines 76-113
analyzeSkills(texts, requiredSkills, names) ==
    LET skillList == skillsOf(requiredSkills)
    IN [n \in 1..Len(texts) |->
          LET s == sortSkills(texts[n], skillList, Len(skillList))
          IN ResumeResult(texts[n], skillList, names, n - 1, s.matched, s.missing)]

-----------------------------------------------------------------------------
(* analyzeSkills, step by step: one action per turn of its loops             *)

scanVars == <<ret, callTexts, callNames, skillsArray, index, scored, matched, missing,
              skillPos, linePos, startIndex, occurrences, hits>>

\* the call analyzeSkills(texts, requiredSkills, names) made by caller: line 77
\* and the start of the map of line 79
CallAnalyzeSkills(texts, requiredSkills, names, caller) ==
    /\ ret' = caller
    /\ callTexts' = texts
    /\ callNames' = names
    /\ skillsArray' = skillsOf(requiredSkills)
    /\ index' = 0
    /\ scored' = <<>>
    /\ matched' = <<>>
    /\ missing' = <<>>
    /\ skillPos' = 0
    /\ linePos' = 0
    /\ startIndex' = 0
    /\ occurrences' = <<>>
    /\ hits' = <<>>

textData == callTexts[index + 1]
skill == skillsArray[skillPos + 1]
line == textData.lines[linePos + 1]

\* the loop of line 57 is to test its condition
Scanning ==
    /\ pc = "scan"
    /\ index < Len(callTexts)
    /\ skillPos < Len(skillsArray)
    /\ linePos < Len(textData.lines)

\* line 57: the position indexOf returns
found == indexOf(toLowerCase(line.content), toLowerCase(skill), startIndex)

\* ScanMatch with line 68 moving startIndex on by one character only
ScanMatchOverlapping ==
    /\ Scanning
    /\ found # -1
    /\ Len(occurrences) < HeapLimit
    /\ occurrences' = Append(occurrences, Occurrence(line, toLowerCase(skill), found))
    /\ hits' = Append(hits, <<line.lineNumber, found>>)
    /\ startIndex' = found + 1
    /\ UNCHANGED <<pc, ret, callTexts, callNames, skillsArray, index, scored, matched,
                   missing, skillPos, linePos>>
    /\ UNCHANGED handlerVars

\* lines 57-68: indexOf found the skill; push the occurrence, move startIndex on
ScanMatch ==
    /\ Scanning
    /\ found # -1
    /\ Len(occurrences) < HeapLimit
    /\ occurrences' = Append(occurrences, Occurrence(line, toLowerCase(skill), found))
    /\ hits' = Append(hits, <<line.lineNumber, found>>)
    /\ startIndex' = found + Len(toLowerCase(skill))
    /\ UNCHANGED <<pc, ret, callTexts, callNames, skillsArray, index, scored, matched,
                   missing, skillPos, linePos>>
    /\ UNCHANGED handlerVars

\* line 62 with the heap full: the push fails and the process dies
ScanOutOfMemory ==
    /\ Scanning
    /\ found # -1
    /\ Len(occurrences) >= HeapLimit
    /\ pc' = "crashed"
    /\ UNCHANGED scanVars
    /\ UNCHANGED handlerVars

\* line 57 leaves the loop (indexOf returned -1): on to the next line
ScanNextLine ==
    /\ Scanning
    /\ found = -1
    /\ linePos' = linePos + 1
    /\ startIndex' = 0
    /\ UNCHANGED <<pc, ret, callTexts, callNames, skillsArray, index, scored, matched,
                   missing, skillPos, occurrences, hits>>
    /\ UNCHANGED handlerVars

\* FinishSkill with line 86 asking for more than one occurrence
FinishSkillOffByOne ==
    /\ pc = "scan"
    /\ index < Len(callTexts)
    /\ skillPos < Len(skillsArray)
    /\ linePos = Len(textData.lines)
    /\ IF Len(occurrences) > 1
       THEN /\ matched' = Append(matched, SkillMatch(skill, occurrences))
            /\ UNCHANGED missing
       ELSE /\ missing' = Append(missing, skill)
            /\ UNCHANGED matched
    /\ skillPos' = skillPos + 1
    /\ linePos' = 0
    /\ startIndex' = 0
    /\ occurrences' = <<>>
    /\ hits' = <<>>
    /\ UNCHANGED <<pc, ret, callTexts, callNames, skillsArray, index, scored>>
    /\ UNCHANGED handlerVars

\* lines 72, 84-94: the lines are done; the skill is matched or missing
FinishSkill ==
    /\ pc = "scan"
    /\ index < Len(callTexts)
    /\ skillPos < Len(skillsArray)
    /\ linePos = Len(textData.lines)
    /\ IF Len(occurrences) > 0
       THEN /\ matched' = Append(matched, SkillMatch(skill, occurrences))
            /\ UNCHANGED missing
       ELSE /\ missing' = Append(missing, skill)
            /\ UNCHANGED matched
    /\ skillPos' = skillPos + 1
    /\ linePos' = 0
    /\ startIndex' = 0
    /\ occurrences' = <<>>
    /\ hits' = <<>>
    /\ UNCHANGED <<pc, ret, callTexts, callNames, skillsArray, index, scored>>
    /\ UNCHANGED handlerVars

\* lines 97-109: the skills are done; the resume's result joins the array
ScoreResume ==
    /\ pc = "scan"
    /\ index < Len(callTexts)
    /\ skillPos = Len(skillsArray)
    /\ scored' = Append(scored, ResumeResult(textData, skillsArray, callNames, index,
                                             matched, missing))
    /\ index' = index + 1
    /\ matched' = <<>>
    /\ missing' = <<>>
    /\ skillPos' = 0
    /\ UNCHANGED <<pc, ret, callTexts, callNames, skillsArray, linePos, startIndex,
                   occurrences, hits>>
    /\ UNCHANGED handlerVars

\* line 112, analyzeSkills called on its own: the caller has the array
ReturnDirect ==
    /\ pc = "scan"
    /\ index = Len(callTexts)
    /\ ret = "direct"
    /\ results' = scored
    /\ pc' = "returned"
    /\ UNCHANGED scanVars
    /\ UNCHANGED <<genAI, files, skills, filePos, resumeTexts, fileNames, i, basicResult,
                   response, judgeLog, judged>>

-----------------------------------------------------------------------------
(* The judge (model.generateContent) and what lines 142-145 make of it       *)

\* A reply text is a sequence of tokens [k, v]: a code fence opening a json
\* block, a bare code fence, white space, prose, or the text of one JSON value
FenceJson == [k |-> "fence json", v |-> Null]
Fence == [k |-> "fence", v |-> Null]
Space == [k |-> "space", v |-> Null]
Prose == [k |-> "prose", v |-> Null]
Json(value) == [k |-> "json", v |-> value]

Verdict(score, elig, text) ==
    [t |-> "obj", v |-> [overall_score |-> score, eligible |-> elig, summary |-> text]]

\* line 144: both replace calls, then trim
stripFences(text) ==
    LET noJson == SelectSeq(text, LAMBDA tok : tok # FenceJson)
        noFence == SelectSeq(noJson, LAMBDA tok : tok # Fence)
        keep == {p \in 1..Len(noFence) : noFence[p] # Space}
        lo == CHOOSE p \in keep : \A q \in keep : p <= q
        hi == CHOOSE p \in keep : \A q \in keep : p >= q
    IN IF keep = {} THEN <<>> ELSE SubSeq(noFence, lo, hi)

\* line 145: JSON.parse accepts exactly one JSON value
parses(aiText) == Len(aiText) = 1 /\ aiText[1].k = "json"
JSONparse(aiText) == aiText[1].v

\* reading a property of a parsed value: a TypeError on null, undefined on a
\* value that is no object or lacks the property
readable(value) == value.t # "null"
prop(value, name) == IF value.t = "obj" THEN value.v[name] ELSE Undefined

\* lines 142-152 run to the end of the push: the call returned, the text
\* parsed and the three properties could be read
succeeds(outcome) ==
    /\ ~outcome.thrown
    /\ parses(stripFences(outcome.text))
    /\ readable(JSONparse(stripFences(outcome.text)))

\* mergeVerdict without the spread of line 148: only the file name is kept
mergeVerdictNoSpread(basic, aiResult) ==
    [basic EXCEPT !.matchPercentage = prop(aiResult, "overall_score"),
                  !.eligible = prop(aiResult, "eligible"),
                  !.summary = prop(aiResult, "summary"),
                  !.matched = <<>>,
                  !.missing = <<>>]

\* lines 147-152
mergeVerdict(basic, aiResult) ==
    [basic EXCEPT !.matchPercentage = prop(aiResult, "overall_score"),
                  !.eligible = prop(aiResult, "eligible"),
                  !.summary = prop(aiResult, "summary")]

Strong == Str(<<"strong match">>)
Weak == Str(<<"weak match">>)

JudgeValues ==
    {Verdict(Num(85), Bool(TRUE), Strong),
     Verdict(Num(40), Bool(FALSE), Weak),
     Verdict(Undefined, Bool(TRUE), Strong),
     Verdict(Num(150), Bool(TRUE), Strong),
     Verdict(Num(85), Str(<<"no">>), Weak),
     Verdict(Num(85), Bool(TRUE), Undefined),
     Num(85),
     Null}

JudgeOutcomes ==
    {[thrown |-> TRUE, text |-> <<>>]}
        \cup {[thrown |-> FALSE, text |-> <<Json(value)>>] : value \in JudgeValues}
        \cup {[thrown |-> FALSE, text |-> text] :
                text \in {<<>>,
                          <<Prose, Json(Verdict(Num(85), Bool(TRUE), Strong))>>,
                          <<FenceJson, Space, Json(Verdict(Num(40), Bool(FALSE), Weak)),
                            Space, Fence>>}}

-----------------------------------------------------------------------------
(* The POST /api/skills-check handler and analyzeSkillsWithAI                *)

Failure(status, message) == [status |-> status, body |-> [error |-> message]]

\* line 180: !skills
noSkills == ~skills.present \/ skills.value = <<>>

\* lines 172-184: validation
Validate ==
    /\ pc = "request"
    /\ IF Len(files) = 0
       THEN /\ response' = Failure(400, "No resume files uploaded")
            /\ pc' = "done"
       ELSE IF noSkills
       THEN /\ response' = Failure(400, "Required skills not provided")
            /\ pc' = "done"
       ELSE /\ pc' = "extract"
            /\ UNCHANGED response
    /\ UNCHANGED <<genAI, files, skills, filePos, resumeTexts, fileNames, i, basicResult,
                   results, judgeLog, judged>>
    /\ UNCHANGED scanVars

\* lines 189-193, one turn of the loop; pdf-parse rejects a buffer it cannot
\* read, and lines 43-45, 204-210 turn that into the 500 response
ExtractFile ==
    /\ pc = "extract"
    /\ filePos < Len(files)
    /\ LET file == files[filePos + 1]
       IN IF file.buffer.readable
          THEN /\ resumeTexts' =
                      Append(resumeTexts, extractTextWithLineNumbers(file.buffer.text))
               /\ fileNames' = Append(fileNames, file.originalname)
               /\ filePos' = filePos + 1
               /\ UNCHANGED <<pc, response>>
          ELSE /\ response' = Failure(500, "Skills analysis failed")
               /\ pc' = "done"
               /\ UNCHANGED <<resumeTexts, fileNames, filePos>>
    /\ UNCHANGED <<genAI, files, skills, i, basicResult, results, judgeLog, judged>>
    /\ UNCHANGED scanVars

\* line 195 calls analyzeSkillsWithAI; lines 117-119 (no judge), or lines
\* 164-167 (getGenerativeModel threw): analyzeSkills on the whole batch
AnalyzeBasic ==
    /\ pc = "extract"
    /\ filePos = Len(files)
    /\ \E modelThrows \in BOOLEAN : ~genAI \/ modelThrows
    /\ CallAnalyzeSkills(resumeTexts, skills.value, fileNames, "basic")
    /\ pc' = "scan"
    /\ UNCHANGED handlerVars

\* line 195 calls analyzeSkillsWithAI; lines 122-127: the judge loop starts
\* (the handler let no empty batch through, so the loop has a first turn)
EnterJudgeLoop ==
    /\ pc = "extract"
    /\ filePos = Len(files)
    /\ genAI
    /\ i' = 0
    /\ results' = <<>>
    /\ CallAnalyzeSkills(<<resumeTexts[1]>>, skills.value, <<fileNames[1]>>, "ai")
    /\ pc' = "scan"
    /\ UNCHANGED <<genAI, files, skills, filePos, resumeTexts, fileNames, basicResult,
                   response, judgeLog, judged>>

\* line 112 returning to line 118 or 166, and that to line 195
ReturnBasic ==
    /\ pc = "scan"
    /\ index = Len(callTexts)
    /\ ret = "basic"
    /\ results' = scored
    /\ pc' = "respond"
    /\ UNCHANGED scanVars
    /\ UNCHANGED <<genAI, files, skills, filePos, resumeTexts, fileNames, i, basicResult,
                   response, judgeLog, judged>>

\* line 112 returning to line 127; lines 129-142: the judge is called
CallJudge ==
    /\ pc = "scan"
    /\ index = Len(callTexts)
    /\ ret = "ai"
    /\ basicResult' = scored[1]
    /\ judgeLog' = Append(judgeLog, "call")
    /\ pc' = "judge"
    /\ UNCHANGED scanVars
    /\ UNCHANGED <<genAI, files, skills, filePos, resumeTexts, fileNames, i, results,
                   response, judged>>

\* line 125 (i++ and the test), then line 127 or line 162
NextTurn ==
    /\ i' = i + 1
    /\ IF i + 1 < Len(resumeTexts)
       THEN /\ CallAnalyzeSkills(<<resumeTexts[i + 2]>>, skills.value,
                                 <<fileNames[i + 2]>>, "ai")
            /\ pc' = "scan"
       ELSE /\ pc' = "respond"
            /\ UNCHANGED scanVars

\* lines 142-154: the judge answered and the answer was usable; the result is
\* pushed and the timer of line 154 is set
JudgeSucceeds ==
    /\ pc = "judge"
    /\ \E outcome \in JudgeOutcomes :
           /\ succeeds(outcome)
           /\ results' = Append(results, mergeVerdict(basicResult,
                                    JSONparse(stripFences(outcome.text))))
           /\ judged' = Append(judged, outcome)
    /\ judgeLog' = Append(judgeLog, "ok")
    /\ pc' = "delay"
    /\ UNCHANGED <<genAI, files, skills, filePos, resumeTexts, fileNames, i, basicResult,
                   response>>
    /\ UNCHANGED scanVars

\* JudgeFails with a catch block that only logs (no push at line 158)
JudgeFailsNoPush ==
    /\ pc = "judge"
    /\ \E outcome \in JudgeOutcomes :
           /\ ~succeeds(outcome)
           /\ judged' = Append(judged, outcome)
    /\ judgeLog' = Append(judgeLog, "fail")
    /\ NextTurn
    /\ UNCHANGED <<genAI, files, skills, filePos, resumeTexts, fileNames, basicResult,
                   results, response>>

\* lines 142-145 threw (the call, the parse or a property read); lines 156-159
\* push the basic result and the loop goes on
JudgeFails ==
    /\ pc = "judge"
    /\ \E outcome \in JudgeOutcomes :
           /\ ~succeeds(outcome)
           /\ judged' = Append(judged, outcome)
    /\ results' = Append(results, basicResult)
    /\ judgeLog' = Append(judgeLog, "fail")
    /\ NextTurn
    /\ UNCHANGED <<genAI, files, skills, filePos, resumeTexts, fileNames, basicResult,
                   response>>

\* line 154: the timer fired, and the loop goes on
DelayElapses ==
    /\ pc = "delay"
    /\ judgeLog' = Append(judgeLog, "delay")
    /\ NextTurn
    /\ UNCHANGED <<genAI, files, skills, filePos, resumeTexts, fileNames, basicResult,
                   results, response, judged>>

\* line 200
eligibleCountOf(list) == Cardinality({r \in 1..Len(list) : Truthy(list[r].eligible)})

\* lines 197-202
Respond ==
    /\ pc = "respond"
    /\ response' = [status |-> 200,
                    body |-> [success |-> TRUE,
                              totalResumes |-> Len(files),
                              eligibleCount |-> eligibleCountOf(results),
                              results |-> results]]
    /\ pc' = "done"
    /\ UNCHANGED <<genAI, files, skills, filePos, resumeTexts, fileNames, i, basicResult,
                   results, judgeLog, judged>>
    /\ UNCHANGED scanVars

-----------------------------------------------------------------------------
(* ScanSpec: analyzeSkills called with one structured text and any           *)
(* requiredSkills string                                                     *)

TextChars == {"a", "A", "b", "\n"}
SkillChars == {"a", "B", ",", " "}

StringsOver(chars, maxLen) ==
    UNION {[1..n -> chars] : n \in 0..maxLen}

NoResponse == [status |-> 0, body |-> <<>>]
NoResult == <<>>

\* the handler's variables, when no request is being handled
HandlerIdle ==
    /\ genAI = FALSE
    /\ files = <<>>
    /\ filePos = 0
    /\ resumeTexts = <<>>
    /\ fileNames = <<>>
    /\ i = 0
    /\ basicResult = NoResult
    /\ results = <<>>
    /\ response = NoResponse
    /\ judgeLog = <<>>
    /\ judged = <<>>

ScanInit ==
    /\ pc = "scan"
    /\ HandlerIdle
    /\ \E text \in StringsOver(TextChars, MaxTextLen) :
           callTexts = <<extractTextWithLineNumbers(text)>>
    /\ \E s \in StringsOver(SkillChars, MaxSkillsLen) :
           /\ skills = [present |-> TRUE, value |-> s]
           /\ skillsArray = skillsOf(s)
    /\ callNames = << <<"cv.pdf">> >>
    /\ ret = "direct"
    /\ index = 0
    /\ scored = <<>>
    /\ matched = <<>>
    /\ missing = <<>>
    /\ skillPos = 0
    /\ linePos = 0
    /\ startIndex = 0
    /\ occurrences = <<>>
    /\ hits = <<>>

ScanNext ==
    \/ ScanMatch
    \/ ScanOutOfMemory
    \/ ScanNextLine
    \/ FinishSkill
    \/ ScoreResume
    \/ ReturnDirect

ScanSpec == ScanInit /\ [][ScanNext]_vars

\* the step-by-step scan returns what the function analyzeSkills gives
ScanAgrees ==
    pc = "returned" =>
        results = analyzeSkills(callTexts, skills.value, callNames)

-----------------------------------------------------------------------------
(* Spec: one request to POST /api/skills-check                               *)

Readable(text) == [readable |-> TRUE, text |-> text]
Corrupt == [readable |-> FALSE, text |-> <<>>]

\* the files a request is made of
RequestFiles ==
    {[originalname |-> <<"ann.pdf">>, buffer |-> Readable(<<"a", " ", "B">>)],
     [originalname |-> <<"bob.pdf">>, buffer |-> Readable(<<" ", "A", "a", "\n", "c">>)],
     [originalname |-> <<"eve.pdf">>, buffer |-> Corrupt]}

\* the skills field of a request: absent, or one of these strings
RequestSkills ==
    {[present |-> FALSE, value |-> <<>>]}
        \cup {[present |-> TRUE, value |-> s] :
                s \in {<<>>, <<" ">>, <<"a">>, <<"a", ",", "b">>, <<"A", ",", " ", "d">>,
                       <<"a", ",">>}}

Init ==
    /\ pc = "request"
    /\ genAI \in BOOLEAN
    /\ files \in UNION {[1..n -> RequestFiles] : n \in 0..MaxFiles}
    /\ skills \in RequestSkills
    /\ filePos = 0
    /\ resumeTexts = <<>>
    /\ fileNames = <<>>
    /\ i = 0
    /\ basicResult = NoResult
    /\ results = <<>>
    /\ response = NoResponse
    /\ judgeLog = <<>>
    /\ judged = <<>>
    /\ ret = "none"
    /\ callTexts = <<>>
    /\ callNames = <<>>
    /\ skillsArray = <<>>
    /\ index = 0
    /\ scored = <<>>
    /\ matched = <<>>
    /\ missing = <<>>
    /\ skillPos = 0
    /\ linePos = 0
    /\ startIndex = 0
    /\ occurrences = <<>>
    /\ hits = <<>>

Next ==
    \/ Validate
    \/ ExtractFile
    \/ AnalyzeBasic
    \/ EnterJudgeLoop
    \/ ScanMatch
    \/ ScanOutOfMemory
    \/ ScanNextLine
    \/ FinishSkill
    \/ ScoreResume
    \/ ReturnBasic
    \/ CallJudge
    \/ JudgeSucceeds
    \/ JudgeFails
    \/ DelayElapses
    \/ Respond

Spec == Init /\ [][Next]_vars

-----------------------------------------------------------------------------
(* RoundSpec: analyzeSkills at line 97, for a list of n skills of which m    *)
(* were found.  Skill k is the one-character string ToString(k); the text    *)
(* has one line for each of the first m skills.                              *)

RECURSIVE JoinNumbers(_, _)
JoinNumbers(n, sep) ==
    IF n = 0 THEN <<>>
    ELSE IF n = 1 THEN <<ToString(1)>>
    ELSE JoinNumbers(n - 1, sep) \o <<sep, ToString(n)>>

RoundInit ==
    /\ pc = "scan"
    /\ HandlerIdle
    /\ \E n \in 1..MaxSkills : \E m \in 0..n :
           LET text == extractTextWithLineNumbers(JoinNumbers(m, "\n"))
               required == JoinNumbers(n, ",")
               sorted == sortSkills(text, skillsOf(required), n)
           IN /\ callTexts = <<text>>
              /\ skills = [present |-> TRUE, value |-> required]
              /\ skillsArray = skillsOf(required)
              /\ matched = sorted.matched
              /\ missing = sorted.missing
              /\ skillPos = n
    /\ callNames = << <<"cv.pdf">> >>
    /\ ret = "direct"
    /\ index = 0
    /\ scored = <<>>
    /\ linePos = 0
    /\ startIndex = 0
    /\ occurrences = <<>>
    /\ hits = <<>>

RoundNext ==
    \/ ScoreResume
    \/ ReturnDirect

RoundSpec == RoundInit /\ [][RoundNext]_vars

-----------------------------------------------------------------------------
(* Properties *)

\* what the Deterministic Scorer alone gives for resume r of the request
Deterministic(r) == analyzeSkills(resumeTexts, skills.value, fileNames)[r]

\* the JSON value a reply carries
verdictOf(outcome) ==
    outcome.text[CHOOSE p \in 1..Len(outcome.text) : outcome.text[p].k = "json"].v

\* C1: on the judge path the call returns one result per resume, in input
\* order; a resume whose judge call threw or whose reply could not be parsed
\* has exactly the result analyzeSkills gives for it, and every other resume
\* has its own deterministic result overwritten by its own verdict, whatever
\* happened to the others.
C1_FallbackIsolated ==
    /\ (pc \in {"respond", "done"} /\ ret = "ai") => Len(results) = Len(files)
    /\ ret = "ai" =>
         /\ Len(judged) = Len(results)
         /\ \A r \in 1..Len(results) :
              results[r] = IF succeeds(judged[r])
                           THEN mergeVerdict(Deterministic(r), verdictOf(judged[r]))
                           ELSE Deterministic(r)

\* a batch of two answered: the first judge call failed, the second succeeded
C1_Witness ==
    /\ pc = "done"
    /\ ret = "ai"
    /\ Len(response.body.results) = 2
    /\ ~succeeds(judged[1])
    /\ succeeds(judged[2])
    /\ response.body.results[2] # Deterministic(2)

\* a reply is well formed: an object whose overall_score is a number in
\* 0..100, whose eligible is a boolean and whose summary is a string
WellFormed(value) ==
    /\ value.t = "obj"
    /\ value.v.overall_score.t = "num"
    /\ value.v.overall_score.v \in 0..100
    /\ value.v.eligible.t = "bool"
    /\ value.v.summary.t = "str"

\* C2: a resume whose reply parsed as an object with a missing or malformed
\* overall_score, eligible or summary has the deterministic matchPercentage,
\* eligible and summary.
C2_MalformedFallsBack ==
    ret = "ai" =>
        \A r \in 1..Len(results) :
            (/\ ~judged[r].thrown
             /\ parses(stripFences(judged[r].text))
             /\ verdictOf(judged[r]).t = "obj"
             /\ ~WellFormed(verdictOf(judged[r])))
            => /\ results[r].matchPercentage = Deterministic(r).matchPercentage
               /\ results[r].eligible = Deterministic(r).eligible
               /\ results[r].summary = Deterministic(r).summary

\* requiredSkills is empty or blank
blankSkills == ~skills.present \/ \A p \in 1..Len(skills.value) : skills.value[p] \in WhiteSpace

\* C3: a request with no document, or with empty or blank skills, is rejected
\* with the validation error: nothing is extracted or scored and no report is
\* produced.
C3_BlankRejected ==
    (Len(files) = 0 \/ blankSkills) =>
        /\ pc \in {"request", "done"}
        /\ resumeTexts = <<>>
        /\ pc = "done" => response.status = 400

\* the skill being scanned is the empty string
scanningEmptySkill ==
    /\ pc = "scan"
    /\ index < Len(callTexts)
    /\ skillPos < Len(skillsArray)
    /\ skill = <<>>

\* C4: the scan of an empty-string skill records no occurrence and never
\* fails: the skill ends up in missing.
C4_EmptySkillNeverMatches ==
    /\ scanningEmptySkill => occurrences = <<>>
    /\ pc # "crashed"

\* position p of the content is a match of the skill, case-insensitively
matchAt(content, sk, p) ==
    /\ p + Len(sk) <= Len(content)
    /\ \A q \in 1..Len(sk) : Lower(content[p + q]) = Lower(sk[q])

\* the skill occurs somewhere in the text
occursIn(text, sk) ==
    \E n \in 1..Len(text.lines) :
        \E p \in 0..Len(text.lines[n].content) : matchAt(text.lines[n].content, sk, p)

\* C5: in every result analyzeSkills returns, each requested skill is in
\* exactly one of matched (it occurs in the text) and missing (it does not), in
\* request order, so matched.length + missing.length = skillList.length.
C5_Partition ==
    \A r \in 1..Len(scored) :
        LET present == SelectSeq(skillsArray, LAMBDA sk : occursIn(callTexts[r], sk))
            absent == SelectSeq(skillsArray, LAMBDA sk : ~occursIn(callTexts[r], sk))
        IN /\ Len(scored[r].matched) + Len(scored[r].missing) = Len(skillsArray)
           /\ [k \in 1..Len(scored[r].matched) |-> scored[r].matched[k].skill] = present
           /\ scored[r].missing = absent
           /\ \A k \in 1..Len(scored[r].matched) :
                  scored[r].matched[k].occurrences # <<>>

\* a list of two skills returned with one matched and one missing
C5_Witness ==
    /\ pc = "returned"
    /\ Len(skillsArray) = 2
    /\ Len(results[1].matched) = 1
    /\ Len(results[1].missing) = 1

\* round(100 * m / n), halves rounded up
roundHalfUp(m, n) == (200 * m + n) \div (2 * n)

\* C6: in every result of analyzeSkills, matchPercentage is
\* round-half-up(100 * matched.length / skillList.length), an integer in
\* 0..100, and eligible is true exactly when matchPercentage >= 60.
C6_Percentage ==
    \A r \in 1..Len(scored) :
        LET pct == scored[r].matchPercentage.v
        IN /\ pct = roundHalfUp(Len(scored[r].matched), Len(skillsArray))
           /\ pct \in 0..100
           /\ scored[r].eligible = Bool(pct >= 60)

\* C7: a resume whose judge call succeeded has the verdict's overall_score,
\* eligible and summary, and the fileName, matched, missing, totalLines and
\* estimatedPages of its deterministic result.
C7_VerdictOverwritesThree ==
    ret = "ai" =>
        \A r \in 1..Len(results) :
            succeeds(judged[r]) =>
                LET verdict == verdictOf(judged[r])
                    det == analyzeSkills(<<resumeTexts[r]>>, skills.value,
                                         <<fileNames[r]>>)[1]
                IN /\ results[r].matchPercentage = prop(verdict, "overall_score")
                   /\ results[r].eligible = prop(verdict, "eligible")
                   /\ results[r].summary = prop(verdict, "summary")
                   /\ results[r].fileName = det.fileName
                   /\ results[r].matched = det.matched
                   /\ results[r].missing = det.missing
                   /\ results[r].totalLines = det.totalLines
                   /\ results[r].estimatedPages = det.estimatedPages

\* a judged resume with evidence: its score is the judge's, its matched list
\* the scan's
C7_Witness ==
    /\ ret = "ai"
    /\ \E r \in 1..Len(results) :
           /\ succeeds(judged[r])
           /\ results[r].matched # <<>>
           /\ results[r].missing # <<>>
           /\ results[r].matchPercentage = Num(85)
           /\ Deterministic(r).matchPercentage = Num(50)

\* C8: in every report, eligibleCount is the number of results whose eligible
\* is true, and totalResumes the number of results.
C8_CountsConsistent ==
    (pc = "done" /\ response.status = 200) =>
        /\ response.body.eligibleCount =
               Cardinality({r \in 1..Len(response.body.results) :
                               response.body.results[r].eligible = Bool(TRUE)})
        /\ response.body.totalResumes = Len(response.body.results)

\* the hits of the skill being scanned, on line n
hitsOn(n) == {h \in {hits[j] : j \in 1..Len(hits)} : h[1] = n}

\* C9: for a non-empty skill, the matches found are real matches, ordered by
\* line then position, never overlapping (the next one starts at or after
\* p + len(skill)); when the lines are done, every match position of a line is
\* either reported or overlapped by a reported match to its left, so adjacent
\* repeats are each counted ("aa" in "aaaa": positions 0 and 2).
C9_NonOverlappingScan ==
    (pc = "scan" /\ index < Len(callTexts) /\ skillPos < Len(skillsArray)
        /\ skill # <<>>) =>
        /\ Len(hits) = Len(occurrences)
        /\ \A j \in 1..Len(hits) :
               /\ occurrences[j].lineNumber = hits[j][1]
               /\ matchAt(textData.lines[hits[j][1]].content, skill, hits[j][2])
        /\ \A j \in 1..(Len(hits) - 1) :
               \/ hits[j][1] < hits[j + 1][1]
               \/ /\ hits[j][1] = hits[j + 1][1]
                  /\ hits[j][2] + Len(skill) <= hits[j + 1][2]
        /\ \A n \in 1..linePos :
               \A q \in 0..Len(textData.lines[n].content) :
                   matchAt(textData.lines[n].content, skill, q) =>
                       \/ <<n, q>> \in hitsOn(n)
                       \/ \E h \in hitsOn(n) : h[2] < q /\ q < h[2] + Len(skill)

\* "aa" scanned in the line "aaaa": two occurrences, at 0 and 2
C9_Witness ==
    /\ pc = "scan"
    /\ index < Len(callTexts)
    /\ skillPos < Len(skillsArray)
    /\ skill = <<"a", "a">>
    /\ textData.lines[1].content = <<"a", "a", "a", "a">>
    /\ linePos = 1
    /\ hits = << <<1, 0>>, <<1, 2>> >>
    /\ Len(occurrences) = 2

\* C10: judge calls are made one at a time, and each call after the first is
\* made only after the pacing delay that follows the call before it, whether
\* that call succeeded or failed.
C10_OneAtATimePaced ==
    \A j \in 2..Len(judgeLog) :
        /\ judgeLog[j - 1] = "call" => judgeLog[j] \in {"ok", "fail"}
        /\ judgeLog[j] = "call" => judgeLog[j - 1] = "delay"

====
